---- MODULE Spec2Model ----
(***************************************************************************)
(* Model of two parts of the SeQUeNCe simulation kernel:                   *)
(*   - the BBPSSW purification protocol                                    *)
(*     (src/src/protocols/entanglement/purification.py), and               *)
(*   - the QuantumManager state store (src/src/kernel/quantum_state.py).   *)
(* The two parts do not call each other; each has its own specification    *)
(* (SpecBBPSSW, SpecQM) over its own variables.                            *)
(***************************************************************************)
EXTENDS Integers, Sequences, FiniteSets, TLC

(***************************************************************************)
(* Bounds of the model.                                                    *)
(***************************************************************************)
NumInst == 3          \* BBPSSW instances; instance i lives on node i
ChannelDelay == 1     \* one-way delay of every classical channel
MaxKey == 1           \* largest qubit key used
MaxMsgs == 1          \* result messages in flight at one time
MaxTime == 2 * ChannelDelay + 1

Insts == 1..NumInst
Nodes == 1..NumInst
None == 0             \* Python None: no instance, no memory, no node

\* Memory objects: instance i is constructed over kept memory 2i-1 and,
\* when it has one, measurement memory 2i.
Memos == 1..(2 * NumInst)
KeptOf(i) == 2 * i - 1
MeasOf(i) == 2 * i

(***************************************************************************)
(* Fidelities are exact rationals <<numerator, denominator>>.              *)
(***************************************************************************)
RECURSIVE GCD(_, _)
GCD(a, b) == IF b = 0 THEN a ELSE GCD(b, a % b)

Reduce(F) == LET g == GCD(F[1], F[2]) IN <<F[1] \div g, F[2] \div g>>

RatEq(F, G) == F[1] * G[2] = G[1] * F[2]
RatLt(F, G) == F[1] * G[2] < G[1] * F[2]
RatLe(F, G) == F[1] * G[2] <= G[1] * F[2]

Half == <<1, 2>>
One == <<1, 1>>

\* BBPSSW.success_probability: F^2 + 2F(1-F)/3 + 5((1-F)/3)^2, with F = n/d
success_probability(F) ==
    LET n == F[1]
        d == F[2]
    IN  Reduce(<<9 * n * n + 6 * n * (d - n) + 5 * (d - n) * (d - n), 9 * d * d>>)

\* a variant that leaves out the squared error term of the numerator's
\* denominator: divides by F^2 + 2F(1-F)/3 + 5(1-F)/3
improved_fidelity_Unsquared(F) ==
    LET n == F[1]
        d == F[2]
    IN  Reduce(<<9 * n * n + (d - n) * (d - n),
                 9 * n * n + 6 * n * (d - n) + 15 * d * (d - n)>>)

\* BBPSSW.improved_fidelity: (F^2 + ((1-F)/3)^2) / success_probability(F)
improved_fidelity(F) ==
    LET n == F[1]
        d == F[2]
    IN  Reduce(<<9 * n * n + (d - n) * (d - n),
                 9 * n * n + 6 * n * (d - n) + 5 * (d - n) * (d - n)>>)

(***************************************************************************)
(* State of the protocol part.                                             *)
(***************************************************************************)
VARIABLES
    now,          \* timeline.now()
    meas_memo,    \* meas_memo[i]: measurement memory of instance i, or None
    t0,           \* t0[i]: kept_memo.timeline.now() at construction
    another,      \* another[i]: the instance set by set_others, or None
    is_success,   \* is_success[i]: "None", "True" or "False"
    fidelity,     \* fidelity[m] of memory m
    entangled,    \* entangled[m]: entangled_memory["node_id"] of m, or None
                  \* when entangled_memory is null
    msgs,         \* result messages in flight, in sending order
    last,         \* the last call made: operation, receiver, argument,
                  \* whether it raised, and the resource-manager updates
                  \* it issued, in order
    expired       \* history kept by SpecExpiry: the memories a
                  \* memory_expire call has marked RAW

pvars == <<now, meas_memo, t0, another, is_success, fidelity, entangled, msgs, last, expired>>

(***************************************************************************)
(* State of the QuantumManager.                                            *)
(***************************************************************************)
VARIABLES
    states,           \* self.states: key -> KetState, a function on the live keys
    least_available,  \* self._least_available
    returned,         \* the keys new() has returned, in order
    qlast             \* the last call made on the manager

qvars == <<states, least_available, returned, qlast>>

vars == <<pvars, qvars>>

\* BBPSSW.__init__: self.memories, after the pop of an absent meas_memo
memories(i) ==
    IF meas_memo[i] = None THEN <<KeptOf(i)>> ELSE <<KeptOf(i), meas_memo[i]>>

SeqRange(s) == {s[k] : k \in 1..Len(s)}

\* BBPSSW.is_ready
is_ready(i) == another[i] # None

Call(op, i, arg, err, ups) ==
    [op |-> op, inst |-> i, arg |-> arg, err |-> err, updates |-> ups]

(***************************************************************************)
(* Construction.  All instances are constructed at time 0 over memories    *)
(* whose attributes are drawn from a small set of profiles.                *)
(***************************************************************************)
\* the remote node the memories of instance i are entangled with: node 2
\* for instance 1, node 1 for every other instance
Peer(i) == IF i = 1 THEN 2 ELSE 1
\* a second remote node, for instance 1
OtherNode == NumInst

Profile(two, kn, mn, kf, mf) ==
    [two |-> two, keptNode |-> kn, measNode |-> mn, keptF |-> kf, measF |-> mf]

\* Instance 1 is built over every kind of memory pair, instance 2 over two
\* good memories or a single memory, every further instance over two good
\* memories.
Profiles(i) ==
    LET r == Peer(i)
        good == Profile(TRUE, r, r, <<3, 4>>, <<3, 4>>)
        single == Profile(FALSE, r, None, <<3, 4>>, <<0, 1>>)
    IN  IF i = 1
        THEN { good, single,
               Profile(TRUE, r, r, One, One),
               Profile(TRUE, r, r, <<3, 4>>, One),
               Profile(TRUE, r, r, Half, Half),
               Profile(TRUE, r, OtherNode, <<3, 4>>, <<3, 4>>),
               Profile(TRUE, None, None, <<3, 4>>, <<3, 4>>) }
        ELSE IF i = 2 THEN {good, single}
        ELSE {good}

\* BBPSSW.__init__ of every instance, at time 0, followed by the
\* set_others calls that make the pairing `linked`
ConstructedOver(prof, linked) ==
        /\ now = 0
        /\ meas_memo = [i \in Insts |-> IF prof[i].two THEN MeasOf(i) ELSE None]
        /\ t0 = [i \in Insts |-> 0]
        /\ another = linked
        /\ is_success = [i \in Insts |-> "None"]
        /\ fidelity = [m \in Memos |->
                         LET i == (m + 1) \div 2
                         IN  IF m = KeptOf(i) THEN prof[i].keptF ELSE prof[i].measF]
        /\ entangled = [m \in Memos |->
                         LET i == (m + 1) \div 2
                         IN  IF m = KeptOf(i) THEN prof[i].keptNode ELSE prof[i].measNode]
        /\ msgs = <<>>
        /\ last = Call("init", None, None, FALSE, <<>>)
        /\ expired = {}

Constructed(linked) ==
    \E prof \in [Insts -> UNION {Profiles(i) : i \in Insts}] :
        /\ \A i \in Insts : prof[i] \in Profiles(i)
        /\ ConstructedOver(prof, linked)

NoKey == -1           \* no key returned

QCall(op, err, keys, n, ret) ==
    [op |-> op, err |-> err, keys |-> keys, n |-> n, ret |-> ret]

\* QuantumManager.__init__
QInit ==
    /\ states = <<>>
    /\ least_available = 0
    /\ returned = <<>>
    /\ qlast = QCall("init", FALSE, <<>>, 0, NoKey)

Unlinked == [i \in Insts |-> None]

PInit == Constructed(Unlinked) /\ QInit

\* instances 1 and 2 linked to each other, the others not linked
PairLinked == [i \in Insts |-> IF i = 1 THEN 2 ELSE IF i = 2 THEN 1 ELSE None]

PairInit == Constructed(PairLinked) /\ QInit

(***************************************************************************)
(* BBPSSW.set_others                                                       *)
(***************************************************************************)
\* a variant that also points the counterpart back at this instance
set_others_Both(i, j) ==
    /\ another' = [[another EXCEPT ![i] = j] EXCEPT ![j] = i]
    /\ last' = Call("set_others", i, j, FALSE, <<>>)
    /\ UNCHANGED <<now, meas_memo, t0, is_success, fidelity, entangled, msgs, expired, qvars>>

set_others(i, j) ==
    /\ another' = [another EXCEPT ![i] = j]
    /\ last' = Call("set_others", i, j, FALSE, <<>>)
    /\ UNCHANGED <<now, meas_memo, t0, is_success, fidelity, entangled, msgs, expired, qvars>>

(***************************************************************************)
(* BBPSSW.start                                                            *)
(***************************************************************************)
\* a variant whose last assertion accepts a fidelity of exactly 1/2
StartPre_Inclusive(i) ==
    /\ another[i] # None
    /\ meas_memo[i] # None
    /\ entangled[KeptOf(i)] # None
    /\ entangled[meas_memo[i]] # None
    /\ entangled[KeptOf(i)] = entangled[meas_memo[i]]
    /\ RatEq(fidelity[KeptOf(i)], fidelity[meas_memo[i]])
    /\ RatLe(Half, fidelity[meas_memo[i]])

\* the three assertions of start() pass (a None meas_memo or a null
\* entangled_memory raises while the second assertion is evaluated)
StartPre(i) ==
    /\ another[i] # None
    /\ meas_memo[i] # None
    /\ entangled[KeptOf(i)] # None
    /\ entangled[meas_memo[i]] # None
    /\ entangled[KeptOf(i)] = entangled[meas_memo[i]]
    /\ RatEq(fidelity[KeptOf(i)], fidelity[meas_memo[i]])
    /\ RatLt(Half, fidelity[meas_memo[i]])

\* the values random() < success_probability(F) can take: random() is in [0, 1)
Draws(F) ==
    {"True"} \cup (IF RatLt(success_probability(F), One) THEN {"False"} ELSE {})

\* a variant that records the draw on this instance only
Drawn_SelfOnly(i, d) ==
    IF is_success[i] = "None" THEN [is_success EXCEPT ![i] = d] ELSE is_success

\* lines 47-51: the draw, written to self and then to self.another
Drawn(i, d) ==
    IF is_success[i] = "None"
    THEN [[is_success EXCEPT ![i] = d] EXCEPT ![another[i]] = d]
    ELSE is_success

\* Node.send_message(dst, message): delivery is due one channel delay later
Message(i) ==
    [src |-> i, dst |-> entangled[KeptOf(i)], receiver |-> another[i],
     due |-> now + ChannelDelay]

start(i) ==
    IF ~StartPre(i)
    THEN /\ last' = Call("start", i, None, TRUE, <<>>)
         /\ UNCHANGED <<now, meas_memo, t0, another, is_success, fidelity, entangled, msgs, expired, qvars>>
    ELSE /\ Len(msgs) < MaxMsgs
         /\ \E d \in Draws(fidelity[KeptOf(i)]) :
               /\ is_success' = Drawn(i, d)
               /\ fidelity' = IF is_success'[i] = "True"
                              THEN [fidelity EXCEPT ![KeptOf(i)] = improved_fidelity(@)]
                              ELSE fidelity
         /\ msgs' = Append(msgs, Message(i))
         /\ last' = Call("start", i, None, FALSE, <<>>)
         /\ UNCHANGED <<now, meas_memo, t0, another, entangled, expired, qvars>>

(***************************************************************************)
(* BBPSSW.update_resource_manager appends to the updates of the call.      *)
(***************************************************************************)
Update(memory, state) == <<memory, state>>

(***************************************************************************)
(* BBPSSW.received_message                                                 *)
(***************************************************************************)
\* the assertion src == self.another.own.name (instance j lives on node j);
\* with another = None evaluating it raises
ReceivedPre(i, src) == another[i] # None /\ src = another[i]

ReceivedUpdates(i) ==
    <<Update(meas_memo[i], "RAW"),
      IF is_success[i] = "True"
      THEN Update(KeptOf(i), "ENTANGLED")
      ELSE Update(KeptOf(i), "RAW")>>

received_message(i, src) ==
    IF ReceivedPre(i, src)
    THEN Call("received_message", i, src, FALSE, ReceivedUpdates(i))
    ELSE Call("received_message", i, src, TRUE, <<>>)

(***************************************************************************)
(* Delivery of the oldest message in flight, once it is due.  The node     *)
(* dst hands the message to its protocol named msg.receiver, if it has     *)
(* one (instance j lives on node j).                                       *)
(***************************************************************************)
Deliver ==
    /\ msgs # <<>>
    /\ Head(msgs).due <= now
    /\ LET m == Head(msgs)
       IN  last' = IF m.receiver = m.dst
                   THEN received_message(m.receiver, m.src)
                   ELSE Call("undelivered", m.dst, m.src, FALSE, <<>>)
    /\ msgs' = Tail(msgs)
    /\ UNCHANGED <<now, meas_memo, t0, another, is_success, fidelity, entangled, expired, qvars>>

(***************************************************************************)
(* BBPSSW.memory_expire                                                    *)
(***************************************************************************)
is_primary(i) == meas_memo[i] # None

\* updates of "for memory1 in self.memories: update(memory1, state)",
\* skipping the memory `skip`
RECURSIVE ForMemories(_, _, _)
ForMemories(ms, skip, state) ==
    IF ms = <<>> THEN <<>>
    ELSE (IF Head(ms) # skip THEN <<Update(Head(ms), state)>> ELSE <<>>)
         \o ForMemories(Tail(ms), skip, state)

\* self.own.cchannels[self.kept_memo.entangled_memory["node_id"]].delay
delay(i) == ChannelDelay

\* a variant whose first window includes its upper boundary
InFirstWindow_Closed(i) == now <= t0[i] + delay(i)

\* line 78: self.own.timeline.now() < self.t0 + delay
InFirstWindow(i) == now < t0[i] + delay(i)

\* a variant whose second window includes its upper boundary
InSecondWindow_Closed(i) == now <= t0[i] + 2 * delay(i)

\* line 83: self.own.timeline.now() < self.t0 + 2 * delay
InSecondWindow(i) == now < t0[i] + 2 * delay(i)

\* a variant that marks every held memory RAW
FirstWindowUpdates_AllRaw(i, memory) == ForMemories(memories(i), None, "RAW")

\* lines 79-82
FirstWindowUpdates(i, memory) ==
    <<Update(memory, "RAW")>> \o ForMemories(memories(i), memory, "ENTANGLED")

\* lines 84-85
SecondWindowUpdates(i) == ForMemories(memories(i), None, "RAW")

\* a variant without the single-memory branch of lines 73-74
ExpireCall_Windowed(i, memory) ==
    LET raised == Call("memory_expire", i, memory, TRUE, <<>>)
        done(ups) == Call("memory_expire", i, memory, FALSE, ups)
    IN  IF memory \notin SeqRange(memories(i)) THEN raised
        ELSE IF entangled[KeptOf(i)] = None THEN raised
        ELSE IF is_primary(i)
             THEN IF InFirstWindow(i) THEN done(FirstWindowUpdates(i, memory))
                  ELSE IF InSecondWindow(i) THEN done(SecondWindowUpdates(i))
                  ELSE raised
             ELSE IF now < t0[i] + delay(i)
                  THEN done(ForMemories(memories(i), None, "RAW"))
                  ELSE IF now < t0[i] + 2 * delay(i) /\ memory = KeptOf(i)
                  THEN done(ForMemories(memories(i), None, "RAW"))
                  ELSE done(<<>>)

ExpireCall(i, memory) ==
    LET raised == Call("memory_expire", i, memory, TRUE, <<>>)
        done(ups) == Call("memory_expire", i, memory, FALSE, ups)
    IN  IF memory \notin SeqRange(memories(i)) THEN raised
        ELSE IF meas_memo[i] = None THEN done(<<Update(memory, "RAW")>>)
        ELSE IF entangled[KeptOf(i)] = None THEN raised
        ELSE IF is_primary(i)
             THEN IF InFirstWindow(i) THEN done(FirstWindowUpdates(i, memory))
                  ELSE IF InSecondWindow(i) THEN done(SecondWindowUpdates(i))
                  ELSE raised
             ELSE IF now < t0[i] + delay(i)
                  THEN done(ForMemories(memories(i), None, "RAW"))
                  ELSE IF now < t0[i] + 2 * delay(i) /\ memory = KeptOf(i)
                  THEN done(ForMemories(memories(i), None, "RAW"))
                  ELSE done(<<>>)

\* the memories memory_expire is called with: the two the instance may
\* hold and one it does not hold
Expirable(i) == {KeptOf(i), MeasOf(i), KeptOf(Peer(i))}

\* the memories marked RAW by the updates ups
MarkedRaw(ups) == {ups[k][1] : k \in {x \in 1..Len(ups) : ups[x][2] = "RAW"}}

memory_expire(i, memory) ==
    /\ last' = ExpireCall(i, memory)
    /\ UNCHANGED <<now, meas_memo, t0, another, is_success, fidelity, entangled, msgs, expired, qvars>>

\* memory_expire, with the memories it marks RAW added to the history
memory_expire_logged(i, memory) ==
    /\ last' = ExpireCall(i, memory)
    /\ expired' = expired \cup MarkedRaw(last'.updates)
    /\ UNCHANGED <<now, meas_memo, t0, another, is_success, fidelity, entangled, msgs, qvars>>

(***************************************************************************)
(* The timeline: time advances one unit at a time and never passes a       *)
(* delivery that is due.                                                   *)
(***************************************************************************)
Tick ==
    /\ now < MaxTime
    /\ \A k \in 1..Len(msgs) : msgs[k].due > now
    /\ now' = now + 1
    /\ last' = Call("tick", None, None, FALSE, <<>>)
    /\ UNCHANGED <<meas_memo, t0, another, is_success, fidelity, entangled, msgs, expired, qvars>>

PNext ==
    \/ \E i \in Insts : \E j \in Insts \ {i} : set_others(i, j)
    \/ \E i \in Insts : start(i)
    \/ Deliver
    \/ \E i \in Insts : \E memory \in Expirable(i) : memory_expire(i, memory)
    \/ Tick

SpecBBPSSW == PInit /\ [][PNext]_vars

\* The linked pair (1, 2) on its own: calls on either side only.
Pair == {1, 2}

PairNext ==
    \/ \E i \in Pair : start(i)
    \/ Deliver
    \/ \E i \in Pair : \E memory \in Expirable(i) : memory_expire(i, memory)
    \/ Tick

SpecPair == PairInit /\ [][PairNext]_vars

\* The linked pair with the history of expirations.
ExpiryNext ==
    \/ \E i \in Pair : start(i)
    \/ Deliver
    \/ \E i \in Pair : \E memory \in Expirable(i) : memory_expire_logged(i, memory)
    \/ Tick

SpecExpiry == PairInit /\ [][ExpiryNext]_vars

(***************************************************************************)
(* The QuantumManager.  Amplitude vectors are sequences of integers; the   *)
(* identity of a state's array object is kept as the field id, named       *)
(* after the least live key that holds the object.                         *)
(***************************************************************************)
Keys == 0..MaxKey

RECURSIVE Pow2(_)
Pow2(n) == IF n = 0 THEN 1 ELSE 2 * Pow2(n - 1)

\* log2(len).is_integer()
IsPow2(len) == \E n \in 0..(MaxKey + 2) : Pow2(n) = len

\* int(log2(len)), for a power of two
Log2(len) == CHOOSE n \in 0..(MaxKey + 2) : Pow2(n) = len

Abs(a) == IF a < 0 THEN -a ELSE a

\* a variant that does not compare the qubit count with the number of keys
KetStateOK_AnyCount(amplitudes, keys) ==
    /\ \A k \in 1..Len(amplitudes) : Abs(amplitudes[k]) <= 1
    /\ IsPow2(Len(amplitudes))

\* set(): the assertions of lines 106 and 108, then those of
\* KetState.__init__ (which repeats them after the test on the amplitudes)
KetStateOK(amplitudes, keys) ==
    /\ \A k \in 1..Len(amplitudes) : Abs(amplitudes[k]) <= 1
    /\ IsPow2(Len(amplitudes))
    /\ Log2(Len(amplitudes)) = Len(keys)

\* KetState.__init__: the object built; id names its array
KetState(id, amplitudes, keys) == [id |-> id, state |-> amplitudes, keys |-> keys]

Min(S) == CHOOSE x \in S : \A y \in S : x <= y

\* names every array object after the least live key holding it
Canon(st) ==
    [k \in DOMAIN st |->
        [st[k] EXCEPT !.id = Min({k2 \in DOMAIN st : st[k2].id = st[k].id})]]

\* an id no stored object has; Fresh + k are distinct new objects
Fresh == MaxKey + 1

\* the amplitude vectors passed to new() and set(): the basis state
\* |0...0> of one qubit up to as many qubits as there are keys, a vector of
\* three amplitudes and, for new(), an amplitude above 1
Zero(len) == [x \in 1..len |-> IF x = 1 THEN 1 ELSE 0]
SetAmpInputs == {Zero(Pow2(n)) : n \in 1..(MaxKey + 1)} \cup {Zero(3)}
NewAmpInputs == {Zero(2), Zero(3), <<2, 0>>}

\* the key lists passed to set() and run_circuit(): lists of keys without
\* repetition
KeyLists == UNION {[1..n -> Keys] : n \in 1..(MaxKey + 1)}

Distinct(ks) == \A x \in 1..Len(ks) : \A y \in 1..Len(ks) : x # y => ks[x] # ks[y]

KeyInputs == {ks \in KeyLists : Distinct(ks)}

\* set() is called with the keys in increasing order
Increasing(ks) == \A x \in 1..Len(ks) : \A y \in 1..Len(ks) : x < y => ks[x] < ks[y]
SetKeyInputs == {ks \in KeyLists : Increasing(ks)}

(***************************************************************************)
(* QuantumManager.new                                                      *)
(***************************************************************************)
\* a variant that hands out the least key that is not live
NextKey_Reuse == Min((0..(MaxKey + 1)) \ DOMAIN states)

\* line 31
NextKey == least_available

new(amplitudes) ==
    /\ least_available <= MaxKey
    /\ LET key == NextKey
       IN  /\ least_available' = least_available + 1
           /\ IF KetStateOK(amplitudes, <<key>>)
              THEN /\ states' = Canon([k \in DOMAIN states \cup {key} |->
                                         IF k = key
                                         THEN KetState(Fresh, amplitudes, <<key>>)
                                         ELSE states[k]])
                   /\ returned' = Append(returned, key)
                   /\ qlast' = QCall("new", FALSE, <<>>, Len(amplitudes), key)
              ELSE /\ qlast' = QCall("new", TRUE, <<>>, Len(amplitudes), NoKey)
                   /\ UNCHANGED <<states, returned>>
    /\ UNCHANGED pvars

(***************************************************************************)
(* QuantumManager.get: a read of self.states[key], which raises for a key  *)
(* that is not live.                                                       *)
(***************************************************************************)
get(key) ==
    /\ qlast' = QCall("get", key \notin DOMAIN states, <<key>>, 0, NoKey)
    /\ UNCHANGED <<states, least_available, returned, pvars>>

(***************************************************************************)
(* QuantumManager.set                                                      *)
(***************************************************************************)
set(keys, amplitudes) ==
    /\ IF KetStateOK(amplitudes, keys)
       THEN /\ states' = Canon([k \in DOMAIN states \cup SeqRange(keys) |->
                                  IF k \in SeqRange(keys)
                                  THEN KetState(Fresh, amplitudes, keys)
                                  ELSE states[k]])
            /\ qlast' = QCall("set", FALSE, keys, Len(amplitudes), NoKey)
       ELSE /\ qlast' = QCall("set", TRUE, keys, Len(amplitudes), NoKey)
            /\ UNCHANGED states
    /\ UNCHANGED <<least_available, returned, pvars>>

(***************************************************************************)
(* QuantumManager.remove                                                   *)
(***************************************************************************)
remove(key) ==
    /\ IF key \in DOMAIN states
       THEN /\ states' = Canon([k \in DOMAIN states \ {key} |-> states[k]])
            /\ qlast' = QCall("remove", FALSE, <<key>>, 0, NoKey)
       ELSE /\ qlast' = QCall("remove", TRUE, <<key>>, 0, NoKey)
            /\ UNCHANGED states
    /\ UNCHANGED <<least_available, returned, pvars>>

(***************************************************************************)
(* QuantumManager.run_circuit                                              *)
(***************************************************************************)
\* "qstate.state not in old_states" (line 62), for arrays: the list is
\* scanned in order; an element that is the same object answers "in"; any
\* other element is compared with ==, which for two arrays of one shape
\* gives an array of booleans whose truth value is ambiguous (an error),
\* and for arrays of different shapes gives False under older numpy
\* (legacy) and an error under newer numpy.  Stored arrays have at least
\* two elements.
RECURSIVE ArrayIn(_, _, _)
ArrayIn(x, old_states, legacy) ==
    IF old_states = <<>> THEN "notin"
    ELSE IF Head(old_states).id = x.id THEN "in"
    ELSE IF Len(Head(old_states).state) = Len(x.state) THEN "raise"
    ELSE IF legacy THEN ArrayIn(x, Tail(old_states), legacy)
    ELSE "raise"

\* lines 58-64: old_states and all_keys after the loop over keys, or an
\* error (a key that is not live, or a comparison that raises)
RECURSIVE Collect(_, _, _, _)
Collect(keys, old_states, all_keys, legacy) ==
    IF keys = <<>> THEN [err |-> FALSE, old_states |-> old_states, all_keys |-> all_keys]
    ELSE IF Head(keys) \notin DOMAIN states
         THEN [err |-> TRUE, old_states |-> old_states, all_keys |-> all_keys]
    ELSE LET qstate == states[Head(keys)]
             found == ArrayIn(qstate, old_states, legacy)
         IN  IF found = "raise"
             THEN [err |-> TRUE, old_states |-> old_states, all_keys |-> all_keys]
             ELSE IF found = "in"
             THEN Collect(Tail(keys), old_states, all_keys, legacy)
             ELSE Collect(Tail(keys), Append(old_states, qstate),
                          all_keys \o qstate.keys, legacy)

\* numpy.kron of two vectors
Kron(a, b) ==
    [k \in 1..(Len(a) * Len(b)) |->
        a[((k - 1) \div Len(b)) + 1] * b[((k - 1) % Len(b)) + 1]]

\* lines 67-69
RECURSIVE KronAll(_, _)
KronAll(new_state, old_states) ==
    IF old_states = <<>> THEN new_state
    ELSE KronAll(Kron(new_state, Head(old_states).state), Tail(old_states))

\* list.index: the 0-based position of the first occurrence, -1 if none
IndexOf(list, x) ==
    IF \E k \in 1..Len(list) : list[k] = x
    THEN Min({k \in 1..Len(list) : list[k] = x}) - 1
    ELSE -1

\* line 70
qubit_indices(all_keys, keys) == [k \in 1..Len(keys) |-> IndexOf(all_keys, keys[k])]

\* the basis index x (0-based) of an n-qubit vector with the bits of
\* qubits i and j exchanged; qubit 0 is the leftmost tensor factor
Bit(x, n, i) == (x \div Pow2(n - 1 - i)) % 2
SwapIndex(x, n, i, j) ==
    x + (Bit(x, n, j) - Bit(x, n, i)) * Pow2(n - 1 - i)
      + (Bit(x, n, i) - Bit(x, n, j)) * Pow2(n - 1 - j)

\* the SWAP gate on targets [i, j], applied to the vector
SwapGate(vec, n, i, j) == [y \in 1..Len(vec) |-> vec[SwapIndex(y - 1, n, i, j) + 1]]

\* a list with the entries at 0-based positions i and j exchanged (line 78)
SwapEntries(list, i, j) ==
    [k \in 1..Len(list) |->
        IF k = i + 1 THEN list[j + 1] ELSE IF k = j + 1 THEN list[i + 1] ELSE list[k]]

\* lines 73-80: for i, j in enumerate(qubit_indices), from position i on
RECURSIVE SwapLoop(_, _, _, _)
SwapLoop(vec, all_keys, indices, i) ==
    IF i >= Len(indices) THEN [state |-> vec, all_keys |-> all_keys]
    ELSE LET j == indices[i + 1]
         IN  IF i # j
             THEN SwapLoop(SwapGate(vec, Len(all_keys), i, j),
                           SwapEntries(all_keys, i, j), indices, i + 1)
             ELSE SwapLoop(vec, all_keys, indices, i + 1)

\* The circuits applied exchange the last two basis states (X on one
\* qubit, CNOT on two, Toffoli on three): circuit_matrix is a permutation
\* matrix, kept as the sequence perm with perm[c] the row of the 1 in
\* column c.
Circuit(size) ==
    [size |-> size,
     circuit_matrix |-> [c \in 1..Pow2(size) |->
                           IF c = Pow2(size) THEN c - 1
                           ELSE IF c = Pow2(size) - 1 THEN c + 1
                           ELSE c]]
Circuits == {Circuit(size) : size \in 1..(MaxKey + 1)}

\* matrix @ vector for a permutation matrix; the shapes must agree
MatVecOK(mat, vec) == Len(mat) = Len(vec)
MatVec(mat, vec) ==
    [r \in 1..Len(mat) |-> vec[CHOOSE c \in 1..Len(mat) : mat[c] = r]]

\* circ_mat @ identity(diff) (line 87): the shapes must agree, and the
\* product with an identity matrix is circ_mat
MatMulIdentityOK(mat, diff) == Len(mat) = diff
MatMulIdentity(mat, diff) == mat

RunFailed == [err |-> TRUE, state |-> <<>>, all_keys |-> <<>>]

\* lines 83-88: the circuit matrix, padded when the circuit is smaller than
\* the joint state, applied to the swapped vector sw.state
ApplyCircuit(circuit, sw) ==
    LET diff == Len(sw.all_keys) - circuit.size
        padded == circuit.size < Len(sw.all_keys)
        circ_mat == IF padded
                    THEN MatMulIdentity(circuit.circuit_matrix, diff)
                    ELSE circuit.circuit_matrix
    IN  IF padded /\ ~MatMulIdentityOK(circuit.circuit_matrix, diff) THEN RunFailed
        ELSE IF ~MatVecOK(circ_mat, sw.state) THEN RunFailed
        ELSE [err |-> FALSE, state |-> MatVec(circ_mat, sw.state), all_keys |-> sw.all_keys]

\* lines 66-80: the compound state, with the qubits of keys swapped to the front
Ordered(col, keys) ==
    LET indices == qubit_indices(col.all_keys, keys)
    IN  IF \E k \in 1..Len(indices) : indices[k] < 0
        THEN RunFailed
        ELSE [err |-> FALSE] @@ SwapLoop(KronAll(<<1>>, col.old_states), col.all_keys, indices, 0)

\* the outcome of run_circuit(circuit, keys): an error, or the state and
\* key list to publish
RunCircuit(circuit, keys, legacy) ==
    LET col == CHOOSE c \in {Collect(keys, <<>>, <<>>, legacy)} : TRUE
    IN  IF col.err THEN RunFailed
        ELSE LET sw == CHOOSE x \in {Ordered(col, keys)} : TRUE
             IN  IF sw.err THEN RunFailed
                 ELSE LET run == CHOOSE x \in {ApplyCircuit(circuit, sw)} : TRUE
                      IN  IF run.err \/ ~KetStateOK(run.state, run.all_keys)
                          THEN RunFailed
                          ELSE run

\* lines 93-94: every key of all_keys gets a KetState of its own, whose
\* array is a copy of new_state
run_circuit(circuit, keys) ==
    /\ \E legacy \in BOOLEAN :
       \E run \in {RunCircuit(circuit, keys, legacy)} :
          IF run.err
          THEN /\ qlast' = QCall("run_circuit", TRUE, keys, circuit.size, NoKey)
               /\ UNCHANGED states
          ELSE /\ states' = Canon([k \in DOMAIN states \cup SeqRange(run.all_keys) |->
                                     IF k \in SeqRange(run.all_keys)
                                     THEN KetState(Fresh + k, run.state, run.all_keys)
                                     ELSE states[k]])
               /\ qlast' = QCall("run_circuit", FALSE, keys, circuit.size, NoKey)
    /\ UNCHANGED <<least_available, returned, pvars>>

\* the protocol instances of the manager's specification: constructed,
\* not linked, and not called
QuietProfiles == [i \in Insts |-> Profile(TRUE, Peer(i), Peer(i), <<3, 4>>, <<3, 4>>)]

QMInit == ConstructedOver(QuietProfiles, Unlinked) /\ QInit

QMNext ==
    \/ \E amplitudes \in NewAmpInputs : new(amplitudes)
    \/ \E keys \in SetKeyInputs : \E amplitudes \in SetAmpInputs : set(keys, amplitudes)
    \/ \E key \in Keys : get(key)
    \/ \E key \in Keys : remove(key)
    \/ \E circuit \in Circuits : \E keys \in KeyInputs : run_circuit(circuit, keys)

SpecQM == QMInit /\ [][QMNext]_vars

(***************************************************************************)
(* Claims about the protocol.                                              *)
(***************************************************************************)
Started(i) == last.op = "start" /\ last.inst = i /\ ~last.err

\* C1: two instances linked to each other always have the same outcome
\* (both unresolved, both success or both failure) under calls of start,
\* received_message and memory_expire on either of them; and when start()
\* has just returned on one of them, both outcomes are resolved.
C1_OutcomesAgree ==
    /\ is_success[1] = is_success[2]
    /\ \A i \in Pair : Started(i) => is_success[1] # "None" /\ is_success[2] # "None"

C1_Witness ==
    /\ Started(2)
    /\ is_success[1] = "False"
    /\ is_success[2] = "False"

\* what C2 lists as the failing preconditions of start(), on instance i
C2_Unlinked(i) == another[i] = None
C2_NotSameNode(i) ==
    \/ meas_memo[i] = None
    \/ entangled[KeptOf(i)] = None
    \/ entangled[meas_memo[i]] = None
    \/ entangled[KeptOf(i)] # entangled[meas_memo[i]]
C2_FidelityDiffers(i) ==
    meas_memo[i] # None /\ ~RatEq(fidelity[KeptOf(i)], fidelity[meas_memo[i]])
C2_FidelityLow(i) == RatLe(fidelity[KeptOf(i)], Half)

C2_Step ==
    \A i \in Insts :
        (/\ last'.op = "start"
         /\ last'.inst = i
         /\ C2_Unlinked(i) \/ C2_NotSameNode(i) \/ C2_FidelityDiffers(i) \/ C2_FidelityLow(i))
        => /\ last'.err
           /\ UNCHANGED <<is_success, fidelity, msgs>>

\* C2: a start() with the counterpart not linked, the memories not entangled
\* with the same remote node, differing fidelities or a fidelity <= 1/2
\* raises, and draws no outcome, changes no fidelity and sends no message.
C2_StartFailsPreconditions == [][C2_Step]_vars

C2_Witness ==
    /\ last.op = "start"
    /\ last.err
    /\ ~C2_Unlinked(last.inst)
    /\ ~C2_NotSameNode(last.inst)
    /\ ~C2_FidelityDiffers(last.inst)
    /\ C2_FidelityLow(last.inst)

\* fidelities n/d in (1/2, 1] with d up to MaxDen
MaxDen == 6
FidGrid == {F \in (1..MaxDen) \X (1..MaxDen) : RatLt(Half, F) /\ RatLe(F, One)}

C3_Law ==
    /\ \A F \in FidGrid :
          /\ RatLt(<<0, 1>>, success_probability(F))
          /\ RatLe(success_probability(F), One)
          /\ RatLe(F, improved_fidelity(F))
    /\ RatEq(success_probability(One), One)
    /\ RatEq(improved_fidelity(One), One)

C3_Step ==
    \A i \in Insts :
        (last'.op = "start" /\ last'.inst = i /\ ~last'.err)
        => LET F == fidelity[KeptOf(i)]
           IN  /\ is_success'[i] = "True"
                    => /\ fidelity'[KeptOf(i)] = improved_fidelity(F)
                       /\ RatLe(F, fidelity'[KeptOf(i)])
               /\ is_success'[i] # "True" => fidelity'[KeptOf(i)] = F
               /\ \A m \in Memos \ {KeptOf(i)} : fidelity'[m] = fidelity[m]

\* C3: a start() that passes its preconditions sets the kept memory's
\* fidelity to improved_fidelity(F) >= F when the outcome is success and
\* leaves it unchanged otherwise; it never changes another memory's
\* fidelity; and on (1/2, 1] success_probability is in (0, 1],
\* improved_fidelity(F) >= F, with both equal to 1 at F = 1.
C3_FidelityOnStart == []C3_Law /\ [][C3_Step]_vars

C3_Witness ==
    /\ Started(1)
    /\ is_success[1] = "True"
    /\ fidelity[KeptOf(1)] = improved_fidelity(<<3, 4>>)
    /\ fidelity[MeasOf(1)] = <<3, 4>>

Held(i) == SeqRange(memories(i))

\* the call last made was received_message on i, from its counterpart's node
Received(i) == last.op = "received_message" /\ last.inst = i /\ ~last.err

\* C4: received_message from the counterpart's node issues exactly: on
\* success, measurement memory RAW and kept memory ENTANGLED; on failure,
\* measurement memory RAW and kept memory RAW; every memory named in an
\* update is one the instance holds.
C4_ReceivedUpdates ==
    \A i \in Insts :
        (Received(i) /\ is_success[i] # "None")
        => /\ Len(last.updates) = 2
           /\ SeqRange(last.updates) =
                 { <<meas_memo[i], "RAW">>,
                   <<KeptOf(i), IF is_success[i] = "True" THEN "ENTANGLED" ELSE "RAW">> }
           /\ \A k \in 1..Len(last.updates) : last.updates[k][1] \in Held(i)

\* the call last made was memory_expire(memory) on the primary instance i,
\* with a memory it holds and a channel to the remote node
ExpiredPrimary(i) ==
    /\ last.op = "memory_expire"
    /\ last.inst = i
    /\ meas_memo[i] # None
    /\ last.arg \in Held(i)
    /\ entangled[KeptOf(i)] # None

\* C5: on a primary instance, memory_expire(m) at now < t0 + delay marks m
\* RAW and every other held memory ENTANGLED, and issues nothing else.
C5_FirstWindow ==
    \A i \in Insts :
        (ExpiredPrimary(i) /\ now < t0[i] + ChannelDelay)
        => /\ ~last.err
           /\ Len(last.updates) = Cardinality(Held(i))
           /\ SeqRange(last.updates) =
                 {<<last.arg, "RAW">>}
                 \cup {<<m, "ENTANGLED">> : m \in Held(i) \ {last.arg}}

C5_Witness ==
    /\ ExpiredPrimary(1)
    /\ now < t0[1] + ChannelDelay
    /\ last.arg = MeasOf(1)
    /\ last.updates = <<<<MeasOf(1), "RAW">>, <<KeptOf(1), "ENTANGLED">>>>

\* C6: on a primary instance, memory_expire at t0 + delay <= now <
\* t0 + 2*delay marks every held memory RAW and none ENTANGLED.
C6_SecondWindow ==
    \A i \in Insts :
        (ExpiredPrimary(i) /\ t0[i] + ChannelDelay <= now /\ now < t0[i] + 2 * ChannelDelay)
        => /\ ~last.err
           /\ Len(last.updates) = Cardinality(Held(i))
           /\ SeqRange(last.updates) = {<<m, "RAW">> : m \in Held(i)}

C6_Witness ==
    /\ ExpiredPrimary(1)
    /\ now = t0[1] + ChannelDelay
    /\ last.updates = <<<<KeptOf(1), "RAW">>, <<MeasOf(1), "RAW">>>>

\* C7: on a primary instance, memory_expire at now >= t0 + 2*delay raises
\* and issues no update.
C7_Deadline ==
    \A i \in Insts :
        (/\ last.op = "memory_expire"
         /\ last.inst = i
         /\ meas_memo[i] # None
         /\ now >= t0[i] + 2 * ChannelDelay)
        => last.err /\ last.updates = <<>>

C7_Witness ==
    /\ ExpiredPrimary(1)
    /\ now = t0[1] + 2 * ChannelDelay
    /\ last.err

\* C8 as stated: link sets both directions, so after a.link(b) both a and b
\* are ready.
C8_LinkBothWays ==
    last.op = "set_others"
    => /\ another[last.inst] = last.arg
       /\ another[last.arg] = last.inst
       /\ is_ready(last.inst)
       /\ is_ready(last.arg)

C8_Step ==
    \A i \in Insts : \A j \in Insts :
        (last'.op = "set_others" /\ last'.inst = i /\ last'.arg = j)
        => /\ another'[i] = j
           /\ is_ready(i)'
           /\ \A k \in Insts \ {i} : another'[k] = another[k]

\* C8, amended: a.set_others(b) sets a's counterpart to b, so a is ready,
\* and leaves the counterpart of every other instance, b included, as it was.
C8_LinkOneWay == [][C8_Step]_vars

C8_Witness ==
    /\ last.op = "set_others"
    /\ another[last.inst] = last.arg
    /\ another[last.arg] = None
    /\ is_ready(last.inst)
    /\ ~is_ready(last.arg)

(***************************************************************************)
(* Claims about the QuantumManager.                                        *)
(***************************************************************************)
\* C9: the keys new() returns are strictly increasing, whatever set,
\* run_circuit and remove calls come between: no key is returned twice,
\* also when it has been removed or its state replaced since.
C9_KeysIncrease ==
    \A x \in 1..Len(returned) : \A y \in 1..Len(returned) :
        x < y => returned[x] < returned[y]

C9_Witness ==
    /\ qlast.op = "new"
    /\ qlast.ret = 1
    /\ returned = <<0, 1>>
    /\ 0 \notin DOMAIN states

\* keys a and b own separate single-qubit states
SeparateSingles(a, b) ==
    /\ a # b
    /\ a \in DOMAIN states
    /\ b \in DOMAIN states
    /\ Len(states[a].keys) = 1
    /\ Len(states[b].keys) = 1
    /\ states[a].id # states[b].id

C10_Step ==
    \A a \in Keys : \A b \in Keys :
        (/\ SeparateSingles(a, b)
         /\ qlast'.op = "run_circuit"
         /\ qlast'.keys = <<a, b>>
         /\ qlast'.n = 2)
        => /\ ~qlast'.err
           /\ a \in DOMAIN states'
           /\ b \in DOMAIN states'
           /\ states'[a].keys = states'[b].keys
           /\ states'[a].state = states'[b].state
           /\ Len(states'[a].keys) = 2
           /\ SeqRange(states'[a].keys) = {a, b}
           /\ Len(states'[a].state) = 4

\* C10: run_circuit with a 2-qubit circuit on two keys that own separate
\* single-qubit states (two fresh keys with the default amplitudes
\* included) publishes one 2-qubit state over exactly those two keys, to
\* which both keys look up.
C10_MergeTwoSingles == [][C10_Step]_vars

C11_Step ==
    (qlast'.op = "run_circuit" /\ ~qlast'.err /\ Distinct(qlast'.keys))
    => \A k \in SeqRange(qlast'.keys) :
          /\ k \in DOMAIN states'
          /\ \A x \in 1..Len(qlast'.keys) : states'[k].keys[x] = qlast'.keys[x]

\* C11: after a run_circuit(circuit, keys) that returns, on distinct live
\* keys, the key list published with the new state has the requested keys
\* in its leading positions, in the order given: its i-th entry is keys[i]
\* for every i < len(keys), whatever the order of keys relative to all_keys.
C11_LeadingKeys == [][C11_Step]_vars

C12_Step ==
    qlast'.op = "set"
    => LET keys == qlast'.keys
           n == qlast'.n
           listed == SeqRange(keys)
       IN  /\ (~IsPow2(n) \/ Log2(n) # Len(keys)) => qlast'.err
           /\ qlast'.err => states' = states
           /\ ~qlast'.err =>
                 /\ DOMAIN states' = DOMAIN states \cup listed
                 /\ \A k \in listed : \A m \in listed :
                       /\ states'[k] = states'[m]
                       /\ states'[k].keys = keys
                       /\ Len(states'[k].state) = n
                 /\ \A k \in DOMAIN states \ listed :
                       /\ states'[k].keys = states[k].keys
                       /\ states'[k].state = states[k].state
                       /\ \A m \in listed : states'[k].id # states'[m].id
                       /\ \A m \in DOMAIN states \ listed :
                             (states'[k].id = states'[m].id) <=> (states[k].id = states[m].id)

\* C12: set(keys, amplitudes) raises whenever len(amplitudes) is not a
\* power of two or its log2 differs from len(keys), and a set() that raises
\* leaves the key -> state mapping as it was; a set() that returns maps
\* every listed key to one and the same new state object over keys, and
\* leaves the mapping of every other key unchanged.
C12_SetChecksDimension == [][C12_Step]_vars

\* a set() that raised on a dimension mismatch while a key was live
C12_Witness ==
    /\ qlast.op = "set"
    /\ qlast.err
    /\ qlast.keys = <<0>>
    /\ qlast.n = 4
    /\ 0 \in DOMAIN states

(***************************************************************************)
(* Further claims about the protocol.                                      *)
(***************************************************************************)
\* the time of the start() that sent message m
SentAt(m) == m.due - ChannelDelay

C13_Step ==
    (last'.op = "received_message" /\ ~last'.err)
    => /\ msgs # <<>>
       /\ now' >= SentAt(Head(msgs)) + delay(last'.inst)
       /\ is_success'[last'.inst] # "None"

\* C13: every received_message on an instance, from its counterpart's
\* node, happens at least delay time units after the start() that sent the
\* message, and never while the outcome of the receiving instance is still
\* unresolved.
C13_ReceivedAfterResolved == [][C13_Step]_vars

\* C14: on an instance without a measurement memory, memory_expire of
\* its kept memory issues exactly one update, that memory RAW, at any time
\* and whatever the outcome; memory_expire of a memory the instance does
\* not hold raises and issues no update.
C14_SingleMemoryExpire ==
    \A i \in Insts :
        (last.op = "memory_expire" /\ last.inst = i)
        => /\ (meas_memo[i] = None /\ last.arg = KeptOf(i))
                 => ~last.err /\ last.updates = <<<<KeptOf(i), "RAW">>>>
           /\ last.arg \notin Held(i) => last.err /\ last.updates = <<>>

\* a single-memory instance with a resolved outcome expires its kept
\* memory after t0 + 2*delay
C14_Witness ==
    /\ last.op = "memory_expire"
    /\ last.inst = 1
    /\ meas_memo[1] = None
    /\ last.arg = KeptOf(1)
    /\ is_success[1] = "True"
    /\ now >= t0[1] + 2 * ChannelDelay
    /\ last.updates = <<<<KeptOf(1), "RAW">>>>

\* C15: the windows of memory_expire are measured from the time s at
\* which start() ran on the instance (the time its result message, still
\* in flight, was sent), whatever time passed since construction: for a
\* primary instance, s <= now < s + delay is handled as the first window
\* and s + delay <= now < s + 2*delay as the second.
C15_WindowsFromStart ==
    \A i \in Insts : \A k \in 1..Len(msgs) :
        (ExpiredPrimary(i) /\ msgs[k].src = i)
        => LET s == SentAt(msgs[k])
           IN  /\ (s <= now /\ now < s + ChannelDelay)
                     => /\ ~last.err
                        /\ SeqRange(last.updates) =
                              {<<last.arg, "RAW">>}
                              \cup {<<m, "ENTANGLED">> : m \in Held(i) \ {last.arg}}
               /\ (s + ChannelDelay <= now /\ now < s + 2 * ChannelDelay)
                     => /\ ~last.err
                        /\ SeqRange(last.updates) = {<<m, "RAW">> : m \in Held(i)}

C16_Step ==
    /\ \A i \in Insts : is_success[i] # "None" => is_success'[i] = is_success[i]
    /\ \A i \in Insts :
          (last'.op = "start" /\ last'.inst = i /\ ~last'.err /\ is_success[i] = "None")
          => is_success[another[i]] = "None"

\* C16: an outcome that is success or failure is never changed by any
\* later call on any instance, and start() draws only while the outcome of
\* neither instance of the pair is decided (one draw per linked pair).
C16_OutcomeWrittenOnce == [][C16_Step]_vars

\* the call named key k: it returned k, or k was among its arguments
Names(call, k) == call.ret = k \/ k \in SeqRange(call.keys)

C17_Step ==
    /\ \A k \in Keys :
          (k \notin DOMAIN states /\ ~Names(qlast', k)) => k \notin DOMAIN states'
    /\ qlast'.op = "remove"
          => \A m \in DOMAIN states \ SeqRange(qlast'.keys) :
                /\ m \in DOMAIN states'
                /\ states'[m].keys = states[m].keys
                /\ states'[m].state = states[m].state

\* C17: a key that is not live (a key is put into the mapping together
\* with every key listed beside it, so a listed key that is not live has
\* been removed) stays not live through every call that does not name it:
\* run_circuit on other keys, former siblings included, remove of other
\* keys and get; and remove(k) leaves the mapping of every other key as it
\* was.
C17_RemovedStaysRemoved == [][C17_Step]_vars

\* C18: once a memory_expire call has marked a memory of an instance RAW,
\* no received_message on that instance marks that memory ENTANGLED.
C18_ExpiredStaysRaw ==
    \A i \in Insts : \A m \in Held(i) :
        (last.op = "received_message" /\ last.inst = i /\ m \in expired)
        => \A k \in 1..Len(last.updates) : last.updates[k] # <<m, "ENTANGLED">>

\* C19: in every reachable state of the manager, every live key k is
\* listed in the keys of its state, and every live key m listed there has
\* a state with the same keys and amplitudes as that of k.
C19_MembershipConsistent ==
    \A k \in DOMAIN states :
        /\ k \in SeqRange(states[k].keys)
        /\ \A m \in SeqRange(states[k].keys) \cap DOMAIN states :
              /\ states[m].keys = states[k].keys
              /\ states[m].state = states[k].state

C20_Step ==
    (qlast'.op = "new" /\ ~qlast'.err)
    => /\ qlast'.ret \notin DOMAIN states
       /\ \A k \in DOMAIN states : states'[k].keys = states[k].keys
                                   /\ states'[k].state = states[k].state

\* C20: new() never returns a key that is live at the time of the call,
\* so it leaves the state of every live key as it was; also after set()
\* calls on keys new() had not returned.
C20_NewKeyNotLive == [][C20_Step]_vars

TypeOK == now \in 0..MaxTime

====
